---- MODULE Spec2Model ----
(***************************************************************************)
(* carina: the search kernel of src/bin/carina.rs and src/mass.rs.         *)
(*                                                                         *)
(*   Tolerance::bounds        mass.rs   19-27                              *)
(*   Score::hyperscore        carina.rs 52-63                              *)
(*   Scorer::score            carina.rs 102-195                            *)
(*   Scorer::assign_q_values  carina.rs 201-229                            *)
(*   main (sort + FDR)        carina.rs 333-334                            *)
(*                                                                         *)
(* Number representation.                                                  *)
(*  - A q-value is the f32 quotient of two small integers.  It is kept as  *)
(*    the reduced fraction <<num, den>>; <<1, 0>> is +infinity (f32        *)
(*    division of a positive number by zero does not trap).  For operands  *)
(*    below 2^24 the rounding of the quotient is monotone and injective    *)
(*    on these fractions, so comparisons of the fractions are the          *)
(*    comparisons of the f32 values.                                       *)
(*  - A hyperscore is an f32 kept as an integer count of 2^-24; sums and   *)
(*    differences are rounded to 24 significant bits, ties to even.        *)
(*  - Masses and m/z are whole Daltons and tolerance windows are in        *)
(*    micro-Dalton, so that center*ppm/10^6 is an integer; the rounding of *)
(*    the f32 products and sums of bounds is left out.                     *)
(***************************************************************************)
EXTENDS Integers, Sequences, FiniteSets, TLC

VARIABLES
    pc,         \* which operation has run: "start", "scored", "assigned", "done", "bounds"
    db,         \* IndexedDatabase: target/decoy label of every peptide
    search,     \* Search: report_psms, precursor_tol, fragment_tol
    query,      \* the ProcessedSpectrum last given to score
    order,      \* iteration order of the HashMap's values in that call
    ranked,     \* `scores` of score after the two q-value walks (line 159)
    local_raw,  \* q-values of score's forward walk (after line 154)
    reporting,  \* the Vec<Percolator> returned by score
    scores,     \* the PSM list of main / the slice given to assign_q_values
    given,      \* that list as it was when assign_q_values was entered
    raw,        \* q-values of assign_q_values' forward walk (after line 216)
    passing,    \* the return value of assign_q_values
    tol,        \* the Tolerance last given to bounds
    center,     \* the center last given to bounds, Dalton
    window      \* the pair returned by bounds, micro-Dalton

vars == <<pc, db, search, query, order, ranked, local_raw, reporting,
          scores, given, raw, passing, tol, center, window>>

-----------------------------------------------------------------------------
(* Bounds of the model *)

MaxLen == 4        \* longest PSM list enumerated record by record
MaxBlocks == 3     \* most runs in a PSM list built from runs
BigRun == 100      \* length of a long run of equal PSMs
MaxPeaks == 2      \* most peaks in a processed spectrum
MaxReport == 2     \* largest report_psms

-----------------------------------------------------------------------------
(* f32 quotients of small integers *)

RECURSIVE Gcd(_, _)
Gcd(a, b) == IF b = 0 THEN a ELSE Gcd(b, a % b)

Infinity == <<1, 0>>
One == <<1, 1>>

\* decoy as f32 / target as f32
F32Div(n, d) == IF d = 0 THEN Infinity ELSE <<n \div Gcd(n, d), d \div Gcd(n, d)>>

QLe(a, b) == a[1] * b[2] <= b[1] * a[2]

\* f32::min
QMin(a, b) == IF QLe(a, b) THEN a ELSE b

\* q <= 0.01
Passes(q) == QLe(q, <<1, 100>>)

-----------------------------------------------------------------------------
(* Percolator records.  The fields kept are the ones score and             *)
(* assign_q_values compute from the ranking; strings, masses and the two   *)
(* percent_* quotients are copied from the inputs and left out.            *)

Psm(peptide, scannr, label, hyperscore, deltascore, matched_peaks, matched_intensity, total_candidates, spectrum_q_value) ==
    [peptide |-> peptide, scannr |-> scannr, label |-> label,
     hyperscore |-> hyperscore, deltascore |-> deltascore,
     matched_peaks |-> matched_peaks, matched_intensity |-> matched_intensity,
     total_candidates |-> total_candidates,
     spectrum_q_value |-> spectrum_q_value, q_value |-> One]

-----------------------------------------------------------------------------
(* Scorer::assign_q_values *)

\* lines 210-216 on positions lo..hi, entered with the counters decoy, target.
\* The loop is split in halves to keep the evaluation shallow.
RECURSIVE ForwardWalk(_, _, _, _, _)
ForwardWalk(s, lo, hi, decoy, target) ==
    IF lo > hi THEN [qs |-> <<>>, decoy |-> decoy, target |-> target]
    ELSE IF lo = hi THEN
        LET d == IF s[lo].label = -1 THEN decoy + 1 ELSE decoy
            t == IF s[lo].label = -1 THEN target ELSE target + 1
        IN [qs |-> <<F32Div(d, t)>>, decoy |-> d, target |-> t]
    ELSE
        LET mid == (lo + hi) \div 2
            l == ForwardWalk(s, lo, mid, decoy, target)
            r == ForwardWalk(s, mid + 1, hi, l.decoy, l.target)
        IN [qs |-> l.qs \o r.qs, decoy |-> r.decoy, target |-> r.target]

\* lines 219-227: steps lo..hi of the iteration over the reversed slice,
\* entered with q_min and passing; step k visits position Len(qs) + 1 - k.
\* qs of the result is in the order of the steps.
\* variant: the q-value is written back without taking the minimum
RECURSIVE ReverseWalkNoMin(_, _, _, _, _)
ReverseWalkNoMin(qs, lo, hi, q_min, n) ==
    IF lo > hi THEN [qs |-> <<>>, q_min |-> q_min, passing |-> n]
    ELSE IF lo = hi THEN
        LET m == qs[Len(qs) + 1 - lo]
        IN [qs |-> <<m>>, q_min |-> m,
            passing |-> IF Passes(m) THEN n + 1 ELSE n]
    ELSE
        LET mid == (lo + hi) \div 2
            l == ReverseWalkNoMin(qs, lo, mid, q_min, n)
            r == ReverseWalkNoMin(qs, mid + 1, hi, l.q_min, l.passing)
        IN [qs |-> l.qs \o r.qs, q_min |-> r.q_min, passing |-> r.passing]

\* variant: passing counts the forward q-value instead of q_min
RECURSIVE ReverseWalkRawCount(_, _, _, _, _)
ReverseWalkRawCount(qs, lo, hi, q_min, n) ==
    IF lo > hi THEN [qs |-> <<>>, q_min |-> q_min, passing |-> n]
    ELSE IF lo = hi THEN
        LET m == QMin(q_min, qs[Len(qs) + 1 - lo])
        IN [qs |-> <<m>>, q_min |-> m,
            passing |-> IF Passes(qs[Len(qs) + 1 - lo]) THEN n + 1 ELSE n]
    ELSE
        LET mid == (lo + hi) \div 2
            l == ReverseWalkRawCount(qs, lo, mid, q_min, n)
            r == ReverseWalkRawCount(qs, mid + 1, hi, l.q_min, l.passing)
        IN [qs |-> l.qs \o r.qs, q_min |-> r.q_min, passing |-> r.passing]

RECURSIVE ReverseWalk(_, _, _, _, _)
ReverseWalk(qs, lo, hi, q_min, n) ==
    IF lo > hi THEN [qs |-> <<>>, q_min |-> q_min, passing |-> n]
    ELSE IF lo = hi THEN
        LET m == QMin(q_min, qs[Len(qs) + 1 - lo])
        IN [qs |-> <<m>>, q_min |-> m,
            passing |-> IF Passes(m) THEN n + 1 ELSE n]
    ELSE
        LET mid == (lo + hi) \div 2
            l == ReverseWalk(qs, lo, mid, q_min, n)
            r == ReverseWalk(qs, mid + 1, hi, l.q_min, l.passing)
        IN [qs |-> l.qs \o r.qs, q_min |-> r.q_min, passing |-> r.passing]

\* assign_q_values with the pseudocount on the targets
assign_q_values_swapped(s) ==
    LET f == ForwardWalk(s, 1, Len(s), 0, 1)
        b == ReverseWalk(f.qs, 1, Len(s), One, 0)
    IN [scores |-> [i \in 1..Len(s) |-> [s[i] EXCEPT !.q_value = b.qs[Len(s) + 1 - i]]],
        raw |-> f.qs,
        passing |-> b.passing]

\* assign_q_values with q_min started at +infinity instead of 1.0
assign_q_values_noclip(s) ==
    LET f == ForwardWalk(s, 1, Len(s), 1, 0)
        b == ReverseWalk(f.qs, 1, Len(s), Infinity, 0)
    IN [scores |-> [i \in 1..Len(s) |-> [s[i] EXCEPT !.q_value = b.qs[Len(s) + 1 - i]]],
        raw |-> f.qs,
        passing |-> b.passing]

\* the slice after the call, the forward walk's q-values and the return value
assign_q_values(s) ==
    LET f == ForwardWalk(s, 1, Len(s), 1, 0)
        b == ReverseWalk(f.qs, 1, Len(s), One, 0)
    IN [scores |-> [i \in 1..Len(s) |-> [s[i] EXCEPT !.q_value = b.qs[Len(s) + 1 - i]]],
        raw |-> f.qs,
        passing |-> b.passing]

-----------------------------------------------------------------------------
(* slice::sort_by on the hyperscore, descending; the sort is stable *)

HyperscoresOf(s) == {s[i].hyperscore : i \in 1..Len(s)}

\* variant: the comparator with its arguments exchanged
RECURSIVE SortAscending(_)
SortAscending(s) ==
    IF s = <<>> THEN <<>>
    ELSE LET low == CHOOSE h \in HyperscoresOf(s) : \A g \in HyperscoresOf(s) : h <= g
         IN SelectSeq(s, LAMBDA r : r.hyperscore = low)
            \o SortAscending(SelectSeq(s, LAMBDA r : r.hyperscore # low))

RECURSIVE SortByHyperscore(_)
SortByHyperscore(s) ==
    IF s = <<>> THEN <<>>
    ELSE LET top == CHOOSE h \in HyperscoresOf(s) : \A g \in HyperscoresOf(s) : h >= g
         IN SelectSeq(s, LAMBDA r : r.hyperscore = top)
            \o SortByHyperscore(SelectSeq(s, LAMBDA r : r.hyperscore # top))

-----------------------------------------------------------------------------
(* Tolerance::bounds *)

MicroDa == 1000000

PpmTol(ppm) == [kind |-> "ppm", payload |-> <<ppm>>]
ThTol(th) == [kind |-> "th", payload |-> <<th>>]

\* center in Dalton; the window in micro-Dalton.  center * ppm / 1_000_000.0
\* Dalton is center * ppm micro-Dalton.
\* variant: the lower end left at center
BoundsOneSided(t, c) ==
    IF t.kind = "ppm"
    THEN LET delta == c * t.payload[1] IN <<c * MicroDa, c * MicroDa + delta>>
    ELSE <<c * MicroDa, (c + t.payload[1]) * MicroDa>>

Bounds(t, c) ==
    IF t.kind = "ppm"
    THEN LET delta == c * t.payload[1]
         IN <<c * MicroDa - delta, c * MicroDa + delta>>
    ELSE <<(c - t.payload[1]) * MicroDa, (c + t.payload[1]) * MicroDa>>

-----------------------------------------------------------------------------
(* The indexed database.  database.rs and peptide.rs are not part of the   *)
(* sources; the fragment table is a fixed example and the query contract   *)
(* is the one of the specification, section 4.D.                           *)

Peptides == {0, 1, 2}

\* monoisotopic mass of each peptide, Dalton
PeptideMass == [p \in Peptides |-> IF p = 2 THEN 501 ELSE 500]

Frag(p, kind, mz) == [peptide_index |-> p, kind |-> kind, fragment_mz |-> mz]

Fragments ==
    {Frag(0, "B", 100), Frag(0, "B", 200), Frag(0, "Y", 300),
     Frag(1, "B", 100), Frag(1, "Y", 200),
     Frag(2, "B", 101), Frag(2, "Y", 200)}

Within(x, w) == w[1] <= x * MicroDa /\ x * MicroDa <= w[2]

\* IndexedQuery::page_search: every fragment within fragment_tol of
\* fragment_mz whose peptide lies in the precursor window
page_search(q, fragment_mz) ==
    {f \in Fragments :
        /\ Within(f.fragment_mz, Bounds(search.fragment_tol, fragment_mz))
        /\ Within(PeptideMass[f.peptide_index],
                  Bounds(search.precursor_tol, q.monoisotopic_mass))}

\* TargetDecoy::label
Label(p) == IF db[p] = "Decoy" THEN -1 ELSE 1

-----------------------------------------------------------------------------
(* Score::hyperscore *)

\* f32::ln of 1..64, in units of 2^-24
Lnf ==
    <<0, 11629080, 18431656, 23258160, 27001888, 30060736, 32646954, 34887240,
      36863312, 38630968, 40230008, 41689816, 43032708, 44276036, 45433544,
      46516320, 47533432, 48492392, 49399488, 50260048, 51078612, 51859088,
      52604864, 53318896, 54003776, 54661788, 55294968, 55905116, 56493848,
      57062624, 57612744, 58145400, 58661664, 59162512, 59648844, 60121472,
      60581148, 61028568, 61464364, 61889128, 62303400, 62707692, 63102468,
      63488168, 63865200, 64233944, 64594756, 64947976, 65293908, 65632856,
      65965088, 66290868, 66610444, 66924048, 67231896, 67534192, 67831144,
      68122928, 68409728, 68691704, 68969016, 69241824, 69510264, 69774480>>

RECURSIVE Quantum(_)
Quantum(x) == IF x < 16777216 THEN 1 ELSE 2 * Quantum(x \div 2)

\* round a non-negative multiple of 2^-24 to 24 significant bits, ties to even
F32Round(x) ==
    LET q == Quantum(x)
        lo == (x \div q) * q
        rem == x - lo
    IN IF 2 * rem < q THEN lo
       ELSE IF 2 * rem > q THEN lo + q
       ELSE IF (x \div q) % 2 = 0 THEN lo ELSE lo + q

F32Add(a, b) == F32Round(a + b)
F32Sub(a, b) == F32Round(a - b)

\* Scorer::new, lines 86-89
RECURSIVE factorial(_)
factorial(i) == IF i = 0 THEN 1 ELSE factorial(i - 1) * i

FactLen == 32

Min(a, b) == IF a <= b THEN a ELSE b

\* lines 53-57.  Every argument of ln is a positive integer of the table, so
\* the sum is finite and the clamp of lines 58-62 is not taken.
Hyperscore(sc) ==
    LET i == (sc.summed_b + 1) * (sc.summed_y + 1)
        m == factorial(Min(sc.matched_b, FactLen - 2))
             * factorial(Min(sc.matched_y, FactLen - 2))
    IN F32Add(Lnf[i], Lnf[m])

-----------------------------------------------------------------------------
(* Scorer::score *)

\* lines 111-113: the pairs (peak index, fragment) the two loops visit
HitsOf(q) ==
    UNION {{<<k, f>> : f \in page_search(q, q.peaks[k].fragment_mz)}
           : k \in DOMAIN q.peaks}

\* the number of visits that reach peptide p with a fragment of the kind
Matched(h, p, kind) ==
    Cardinality({x \in h : x[2].peptide_index = p /\ x[2].kind = kind})

\* the intensities added on those visits, peaks k..Len
RECURSIVE Summed(_, _, _, _, _)
Summed(h, q, p, kind, k) ==
    IF k > Len(q.peaks) THEN 0
    ELSE q.peaks[k].intensity * Matched({x \in h : x[1] = k}, p, kind)
         + Summed(h, q, p, kind, k + 1)

\* the HashMap after line 129: Score::new on the first hit of a peptide,
\* then lines 118-127 on every hit
Accumulate(q) ==
    LET h == HitsOf(q)
    IN [p \in {x[2].peptide_index : x \in h} |->
           [peptide |-> p,
            matched_b |-> Matched(h, p, "B"),
            matched_y |-> Matched(h, p, "Y"),
            summed_b |-> Summed(h, q, p, "B", 1),
            summed_y |-> Summed(h, q, p, "Y", 1),
            q_value |-> One,
            hyperscore |-> 0]]

\* the orders in which HashMap::into_values may yield the keys S
Orders(S) ==
    {o \in [1..Cardinality(S) -> S] : \A i, j \in DOMAIN o : i # j => o[i] # o[j]}

\* lines 146-154
RECURSIVE SpectrumForward(_, _, _, _)
SpectrumForward(s, i, decoy, target) ==
    IF i > Len(s) THEN <<>>
    ELSE LET d == IF db[s[i].peptide] = "Decoy" THEN decoy + 1 ELSE decoy
             t == IF db[s[i].peptide] = "Target" THEN target + 1 ELSE target
         IN <<F32Div(d, t)>> \o SpectrumForward(s, i + 1, d, t)

\* lines 155-159, from position i down to 1
RECURSIVE SpectrumReverse(_, _, _)
SpectrumReverse(qs, i, q_min) ==
    IF i = 0 THEN <<>>
    ELSE SpectrumReverse(qs, i - 1, QMin(q_min, qs[i])) \o <<QMin(q_min, qs[i])>>

\* lines 163-193
\* variant: get(idx) instead of get(idx + 1)
NextOfSelf(s, idx) == s[idx].hyperscore
NextOf(s, idx) == IF idx + 1 <= Len(s) THEN s[idx + 1].hyperscore ELSE 0

\* variant: the loop bound without report_psms
ReportCountAll(n) == n
ReportCount(n) == Min(search.report_psms, n)

Report(q, s) ==
    [idx \in 1..ReportCount(Len(s)) |->
        Psm(s[idx].peptide, q.scan, Label(s[idx].peptide), s[idx].hyperscore,
            F32Sub(s[idx].hyperscore, NextOf(s, idx)),
            s[idx].matched_b + s[idx].matched_y,
            s[idx].summed_b + s[idx].summed_y,
            Len(s), s[idx].q_value)]

\* lines 131-194 on the HashMap acc, its values yielded in the order o
score(q, acc, o) ==
    IF DOMAIN acc = {}
    THEN [ranked |-> <<>>, local_raw |-> <<>>, reporting |-> <<>>]
    ELSE LET values == [k \in 1..Len(o) |->
                          [acc[o[k]] EXCEPT !.hyperscore = Hyperscore(acc[o[k]])]]
             sorted == SortByHyperscore(values)
             fwd == SpectrumForward(sorted, 1, 1, 0)
             bwd == SpectrumReverse(fwd, Len(fwd), One)
             final == [k \in 1..Len(sorted) |-> [sorted[k] EXCEPT !.q_value = bwd[k]]]
         IN [ranked |-> final, local_raw |-> fwd, reporting |-> Report(q, final)]

-----------------------------------------------------------------------------
(* Inputs *)

Mzs == {100, 200, 300}
Intensities == {0, 1, 2}
Peak == [fragment_mz : Mzs, intensity : Intensities]

\* peak lists of a processed spectrum: sorted by m/z, at most MaxPeaks peaks
PeakLists ==
    UNION {{ps \in [1..n -> Peak] :
               \A i \in 1..(n - 1) : ps[i].fragment_mz < ps[i + 1].fragment_mz}
           : n \in 0..MaxPeaks}

Queries == [scan : {7}, monoisotopic_mass : {500, 502}, peaks : PeakLists]

NoQuery == [scan |-> 0, monoisotopic_mass |-> 0, peaks |-> <<>>]

Searches ==
    [report_psms : 1..MaxReport,
     precursor_tol : {ThTol(1)},
     fragment_tol : {PpmTol(10), ThTol(1)}]

\* a PSM as main collects it: label and hyperscore are what the FDR pass reads
Desc == [label : {1, -1}, hyperscore : {Lnf[2], Lnf[3]}]

Collected(ds) ==
    [i \in 1..Len(ds) |->
        Psm(0, i, ds[i].label, ds[i].hyperscore, ds[i].hyperscore, 1, 1, 1, One)]

ShortLists == UNION {{Collected(ds) : ds \in [1..n -> Desc]} : n \in 0..MaxLen}

\* a run of equal PSMs; the k-th run of a list carries the hyperscore ln(k + 1),
\* so a list of several runs is not yet sorted
Block == [label : {1, -1}, run : {1, BigRun}]

RECURSIVE Expand(_, _)
Expand(bs, k) ==
    IF k > Len(bs) THEN <<>>
    ELSE [i \in 1..bs[k].run |-> [label |-> bs[k].label, hyperscore |-> Lnf[k + 1]]]
         \o Expand(bs, k + 1)

LongLists ==
    UNION {{Collected(Expand(bs, 1)) : bs \in [1..n -> Block]} : n \in 0..MaxBlocks}

-----------------------------------------------------------------------------
(* The state machine *)

Idle ==
    /\ pc = "start"
    /\ query = NoQuery
    /\ order = <<>>
    /\ ranked = <<>>
    /\ local_raw = <<>>
    /\ reporting = <<>>
    /\ given = <<>>
    /\ raw = <<>>
    /\ passing = 0
    /\ tol = ThTol(0)
    /\ center = 0
    /\ window = <<0, 0>>

\* a scorer over some database and search parameters, no PSM collected yet
InitScore ==
    /\ Idle
    /\ db \in [Peptides -> {"Target", "Decoy"}]
    /\ search \in Searches
    /\ scores = <<>>

\* main after the spectra of a file have been scored and collected
InitCollected ==
    /\ Idle
    /\ db = [p \in Peptides |-> "Target"]
    /\ search = [report_psms |-> 1, precursor_tol |-> ThTol(1), fragment_tol |-> PpmTol(10)]
    /\ scores \in ShortLists

InitLong ==
    /\ Idle
    /\ db = [p \in Peptides |-> "Target"]
    /\ search = [report_psms |-> 1, precursor_tol |-> ThTol(1), fragment_tol |-> PpmTol(10)]
    /\ scores \in LongLists

Init == InitScore \/ InitCollected

\* Scorer::score on one spectrum
Score ==
    /\ pc = "start"
    /\ scores = <<>>
    /\ \E q \in Queries : \E acc \in {Accumulate(q)} : \E o \in Orders(DOMAIN acc) :
          LET r == score(q, acc, o)
          IN /\ query' = q
             /\ order' = o
             /\ ranked' = r.ranked
             /\ local_raw' = r.local_raw
             /\ reporting' = r.reporting
    /\ pc' = "scored"
    /\ UNCHANGED <<db, search, scores, given, raw, passing, tol, center, window>>

\* Scorer::assign_q_values called on the list as it is
AssignQValues ==
    /\ pc = "start"
    /\ LET r == assign_q_values(scores)
       IN /\ given' = scores
          /\ scores' = r.scores
          /\ raw' = r.raw
          /\ passing' = r.passing
    /\ pc' = "assigned"
    /\ UNCHANGED <<db, search, query, order, ranked, local_raw, reporting,
                   tol, center, window>>

\* main, lines 333-334: sort, then assign_q_values
MainFdr ==
    /\ pc = "start"
    /\ LET sorted == SortByHyperscore(scores)
           r == assign_q_values(sorted)
       IN /\ given' = sorted
          /\ scores' = r.scores
          /\ raw' = r.raw
          /\ passing' = r.passing
    /\ pc' = "done"
    /\ UNCHANGED <<db, search, query, order, ranked, local_raw, reporting,
                   tol, center, window>>

\* Tolerance::bounds
BoundsCall ==
    /\ pc = "start"
    /\ scores = <<>>
    /\ \E t \in {PpmTol(v) : v \in {-10, 0, 10, 50}} \cup {ThTol(v) : v \in {-1, 0, 1}} :
       \E c \in {487, 1000} :
          /\ tol' = t
          /\ center' = c
          /\ window' = Bounds(t, c)
    /\ pc' = "bounds"
    /\ UNCHANGED <<db, search, query, order, ranked, local_raw, reporting,
                   scores, given, raw, passing>>

Next == Score \/ AssignQValues \/ MainFdr \/ BoundsCall

Spec == Init /\ [][Next]_vars

NextFdr == AssignQValues \/ MainFdr

SpecLong == InitLong /\ [][NextFdr]_vars

-----------------------------------------------------------------------------
(* Properties *)

min_matched_peaks == 4

Called == pc \in {"assigned", "done"}

IsSortedDesc(s) == \A i \in 1..(Len(s) - 1) : s[i].hyperscore >= s[i + 1].hyperscore

QLt(a, b) == ~QLe(b, a)

\* C1: for a PSM list sorted by hyperscore descending, after assign_q_values
\* the q-values are non-decreasing from the first record to the last:
\* q_value[i] <= q_value[j] for all i < j.
C1_QValuesMonotone ==
    (Called /\ IsSortedDesc(given)) =>
        \A i, j \in 1..Len(scores) :
            i < j => QLe(scores[i].q_value, scores[j].q_value)

\* a sorted list of targets and decoys whose forward q-values go down
\* somewhere and whose final q-values differ
C1_Witness ==
    /\ pc = "assigned"
    /\ IsSortedDesc(given)
    /\ \E i, j \in 1..Len(given) : given[i].label = -1 /\ given[j].label = 1
    /\ \E i \in 1..(Len(raw) - 1) : QLt(raw[i + 1], raw[i])
    /\ QLt(scores[1].q_value, scores[Len(scores)].q_value)

PassingSet == {i \in 1..Len(scores) : Passes(scores[i].q_value)}

\* C2: assign_q_values returns the number of PSMs whose final q_value is
\* <= 0.01, and the passing PSMs are exactly the first `passing` records of
\* the list, so the number is the largest k whose k-th record passes (0 when
\* none passes).
C2_PassingCount ==
    Called => /\ passing = Cardinality(PassingSet)
              /\ PassingSet = 1..passing

\* some records pass and some do not, after main's sort
C2_Witness ==
    /\ pc = "done"
    /\ passing > 0
    /\ passing < Len(scores)
    /\ \E i \in 1..passing : ~Passes(raw[i])

SameOrder(s, t) ==
    /\ Len(s) = Len(t)
    /\ \A i \in 1..Len(s) :
          s[i].scannr = t[i].scannr /\ s[i].hyperscore = t[i].hyperscore

\* C3 as claimed: after assign_q_values the list is ordered by hyperscore
\* descending, whatever order it was given in.
C3_SortsItself == pc = "assigned" => IsSortedDesc(scores)

\* C3 as amended: assign_q_values leaves the order of the list as it was
\* given; it is main that sorts the list by hyperscore descending before the
\* call, so after main's sort and call the list is sorted.
C3_CallerSorts ==
    /\ Called => SameOrder(scores, given)
    /\ pc = "done" => IsSortedDesc(scores)

\* assign_q_values was called on a list that is not sorted
C3_Witness == pc = "assigned" /\ ~IsSortedDesc(given) /\ Len(scores) >= 2

\* C4: the ranking within a spectrum is by hyperscore descending, then by
\* peptide index ascending, so every iteration order of the accumulator
\* yields the PSMs that this run returned.
C4_Deterministic ==
    pc = "scored" =>
        /\ \A i, j \in 1..Len(ranked) :
              i < j => \/ ranked[i].hyperscore > ranked[j].hyperscore
                       \/ /\ ranked[i].hyperscore = ranked[j].hyperscore
                          /\ ranked[i].peptide < ranked[j].peptide
        /\ \A o \in Orders(DOMAIN Accumulate(query)) :
              score(query, Accumulate(query), o).reporting = reporting

\* C5: every PSM returned by score has matched_peaks >= min_matched_peaks.
C5_MinMatchedPeaks ==
    pc = "scored" =>
        \A i \in 1..Len(reporting) : reporting[i].matched_peaks >= min_matched_peaks

\* the peptides that received at least one fragment hit
HitPeptides ==
    {p \in Peptides :
        \E k \in DOMAIN query.peaks :
            \E f \in page_search(query, query.peaks[k].fragment_mz) :
                f.peptide_index = p}

\* C6: score returns exactly min(report_psms, number of peptides with at
\* least one fragment hit) PSMs, they are the top-ranked candidates, and the
\* list is empty when the peak list is empty or no peak matches a fragment.
C6_ReportCount ==
    pc = "scored" =>
        /\ Len(reporting) = Min(search.report_psms, Cardinality(HitPeptides))
        /\ Len(reporting) <= search.report_psms
        /\ \A i \in 1..Len(reporting) :
              /\ reporting[i].peptide = ranked[i].peptide
              /\ \A j \in (Len(reporting) + 1)..Len(ranked) :
                    reporting[i].hyperscore >= ranked[j].hyperscore
        /\ (query.peaks = <<>> \/ HitPeptides = {}) => reporting = <<>>

\* more candidates than report_psms, and exactly report_psms PSMs returned
C6_Witness ==
    /\ pc = "scored"
    /\ Cardinality(HitPeptides) > search.report_psms
    /\ Len(reporting) = search.report_psms
    /\ ranked[Len(ranked)].hyperscore < reporting[1].hyperscore

\* C7 as claimed: deltascore is the hyperscore minus the hyperscore of the
\* next-ranked candidate, and 0 when there is no next-ranked candidate.
C7_DeltaZeroAtEnd ==
    pc = "scored" =>
        \A i \in 1..Len(reporting) :
            reporting[i].deltascore =
                IF i < Len(ranked)
                THEN F32Sub(reporting[i].hyperscore, ranked[i + 1].hyperscore)
                ELSE 0

\* C7 as amended: when there is no next-ranked candidate the next hyperscore
\* is taken as 0, so deltascore is the PSM's own hyperscore.
C7_DeltaScore ==
    pc = "scored" =>
        \A i \in 1..Len(reporting) :
            reporting[i].deltascore =
                IF i < Len(ranked)
                THEN F32Sub(reporting[i].hyperscore, ranked[i + 1].hyperscore)
                ELSE reporting[i].hyperscore

\* two PSMs returned for two candidates: the first has a next-ranked
\* candidate with a lower score, the last has none
C7_Witness ==
    /\ pc = "scored"
    /\ Len(ranked) = 2
    /\ Len(reporting) = 2
    /\ reporting[1].deltascore > 0
    /\ reporting[1].deltascore < reporting[1].hyperscore
    /\ reporting[2].hyperscore > 0
    /\ reporting[2].deltascore = reporting[2].hyperscore

\* k of the bounds call, in micro-Dalton per unit of tolerance
K == IF tol.kind = "ppm" THEN center ELSE MicroDa

C9_NoZeroTargets ==
    /\ pc = "scored" => \A i \in 1..Len(local_raw) : local_raw[i][2] # 0
    /\ Called => \A i \in 1..Len(raw) : raw[i][2] # 0

\* C9 as amended: the pseudocount is on the decoys; q = decoys/0 is computed
\* for every record ranked before the first target and for no other, it is
\* +infinity, and the backward walk started at 1.0 replaces it, so every
\* final q-value is finite, positive and at most 1.
C9_InfinityClipped ==
    /\ pc = "scored" =>
          \A i \in 1..Len(ranked) :
              /\ local_raw[i][2] = 0 <=> \A j \in 1..i : db[ranked[j].peptide] = "Decoy"
              /\ local_raw[i][2] = 0 => local_raw[i] = Infinity
              /\ ranked[i].q_value[2] # 0
              /\ QLt(<<0, 1>>, ranked[i].q_value)
              /\ QLe(ranked[i].q_value, One)
    /\ Called =>
          \A i \in 1..Len(scores) :
              /\ raw[i][2] = 0 <=> \A j \in 1..i : given[j].label = -1
              /\ raw[i][2] = 0 => raw[i] = Infinity
              /\ scores[i].q_value[2] # 0
              /\ QLt(<<0, 1>>, scores[i].q_value)
              /\ QLe(scores[i].q_value, One)

\* the best-ranked record is a decoy, a target follows
C9_Witness ==
    /\ Called
    /\ Len(scores) >= 2
    /\ given[1].label = -1
    /\ \E i \in 2..Len(given) : given[i].label = 1
    /\ raw[1] = Infinity
    /\ scores[1].q_value = One

\* (1 + decoys in positions 1..j) / (non-decoys in positions 1..j)
Ratio(s, j) ==
    F32Div(1 + Cardinality({k \in 1..j : s[k].label = -1}),
           Cardinality({k \in 1..j : s[k].label # -1}))

QMinOf(S) == CHOOSE m \in S : \A x \in S : QLe(m, x)

\* C10: after assign_q_values the q_value at position i is
\* min(1, min over j >= i of Ratio(j)), every q_value is in (0, 1], and no
\* other field and no position has changed.
C10_ClosedForm ==
    Called =>
        /\ Len(scores) = Len(given)
        /\ \A i \in 1..Len(scores) :
              /\ scores[i].q_value =
                    QMinOf({One} \cup {Ratio(given, j) : j \in i..Len(given)})
              /\ QLt(<<0, 1>>, scores[i].q_value)
              /\ QLe(scores[i].q_value, One)
              /\ [scores[i] EXCEPT !.q_value = One] = given[i]

\* a raw ratio above 1 is clipped, a later lower ratio is carried back
C10_Witness ==
    /\ pc = "assigned"
    /\ Len(scores) >= 3
    /\ \E i \in 1..Len(raw) : QLt(One, raw[i]) /\ raw[i] # Infinity
    /\ \E i \in 1..Len(raw) : QLt(scores[i].q_value, raw[i]) /\ QLt(scores[i].q_value, One)

====
